---------------------------- MODULE Spec2Model ----------------------------
(* A model of giotto/utils/validation.py: the two array validators           *)
(* (check_diagram, check_graph) and the two parameter validators             *)
(* (validate_params, validate_metric_params).  Every function is modelled    *)
(* statement by statement: one action per check or loop iteration, the       *)
(* position in the function in pc, the raised exception in raised.           *)
EXTENDS Integers, Sequences, FiniteSets, TLC

VARIABLES pc, raised, returned, i, j, X, parameters, references, metric, metric_params

vars == <<pc, raised, returned, i, j, X, parameters, references, metric, metric_params>>

(* The value of an argument the running function does not have. *)
Unset == <<>>

---------------------------------------------------------------------------
(* Numbers.  A float is +inf, -inf or a finite value; the finite values of  *)
(* the model are half/2 + eps * 5e-17 with |eps| small, which holds the      *)
(* literals of the source (0., 1., 1e-16) and values around them exactly.    *)
(* Comparison is lexicographic on (inf, half, eps).                          *)

Fin(h, e) == [inf |-> 0, half |-> h, eps |-> e]

Whole(n) == Fin(2 * n, 0)

PosInf == [inf |-> 1, half |-> 0, eps |-> 0]

NegInf == [inf |-> -1, half |-> 0, eps |-> 0]

Lt(a, b) ==
    \/ a.inf < b.inf
    \/ /\ a.inf = 0
       /\ b.inf = 0
       /\ \/ a.half < b.half
          \/ a.half = b.half /\ a.eps < b.eps

Gt(a, b) == Lt(b, a)

Ge(a, b) == ~Lt(a, b)

(* Python values: an int, a float, a str or a list, with the number, the  *)
(* text or the items it holds.                                             *)
PyInt(n) == [ty |-> "int", num |-> Whole(n), str |-> "", items |-> <<>>]

PyFloat(x) == [ty |-> "float", num |-> x, str |-> "", items |-> <<>>]

PyStr(t) == [ty |-> "str", num |-> Whole(0), str |-> t, items |-> <<>>]

PyList(l) == [ty |-> "list", num |-> Whole(0), str |-> "", items |-> l]

(* isinstance(v, t) for t in int, float, numbers.Number, str, list *)
isinstance(v, t) ==
    CASE t = "int" -> v.ty = "int"
      [] t = "float" -> v.ty = "float"
      [] t = "Number" -> v.ty \in {"int", "float"}
      [] t = "str" -> v.ty = "str"
      [] t = "list" -> v.ty = "list"
      [] OTHER -> FALSE

---------------------------------------------------------------------------
(* The schema registry. *)

Decl(name, type, lo, hi) == [param |-> name, param_type |-> type, lo |-> lo, hi |-> hi]

available_metrics ==
    [m \in {"bottleneck", "wasserstein", "betti", "landscape", "heat"} |->
        CASE m = "bottleneck" ->
               << Decl("delta", "Number", Whole(0), Whole(1)) >>
          [] m = "wasserstein" ->
               << Decl("p", "int", Whole(1), PosInf),
                  Decl("delta", "Number", Fin(0, 2), Whole(1)) >>
          [] m = "betti" ->
               << Decl("p", "Number", Whole(1), PosInf),
                  Decl("n_values", "int", Whole(1), PosInf) >>
          [] m = "landscape" ->
               << Decl("p", "Number", Whole(1), PosInf),
                  Decl("n_values", "int", Whole(1), PosInf),
                  Decl("n_layers", "int", Whole(1), PosInf) >>
          [] m = "heat" ->
               << Decl("order", "Number", Whole(1), PosInf),
                  Decl("n_values", "int", Whole(1), PosInf),
                  Decl("sigma", "Number", Whole(0), PosInf) >>]

available_metric_params ==
    UNION { { available_metrics[m][k].param : k \in DOMAIN available_metrics[m] } :
            m \in DOMAIN available_metrics }

---------------------------------------------------------------------------
(* Bounds and inputs of validate_metric_params. *)

MaxParams == 2

MetricNames == DOMAIN available_metrics \cup {"unknown_metric"}

ParamNames == available_metric_params \cup {"bogus_param"}

(* ints 0, 1; floats -0.5, 0.0, 1e-16, 1.0, 1.5; a str *)
ParamValues ==
    { PyInt(0), PyInt(1),
      PyFloat(Fin(-1, 0)), PyFloat(Whole(0)), PyFloat(Fin(0, 2)),
      PyFloat(Whole(1)), PyFloat(Fin(3, 0)), PyStr("a") }

(* A dict is the sequence of its items in insertion order, keys distinct. *)
Item(k, v) == [key |-> k, value |-> v]

keys(d) == { d[k].key : k \in DOMAIN d }

get(d, name) == (CHOOSE k \in DOMAIN d : d[k].key = name)

value_of(d, name) == d[get(d, name)].value

IsDict(d) == \A a, b \in DOMAIN d : a # b => d[a].key # d[b].key

MetricParamDicts ==
    { d \in UNION { [1..n -> [key : ParamNames, value : ParamValues]] : n \in 0..MaxParams } :
        IsDict(d) }

---------------------------------------------------------------------------
(* validate_metric_params(metric, metric_params) *)

(* Mutations of the range test of line 141: a bound made exclusive. *)
OutOfRange_MaxExclusive(v, lo, hi) == Lt(v.num, lo) \/ Ge(v.num, hi)

OutOfRange_MinExclusive(v, lo, hi) == ~Gt(v.num, lo) \/ Gt(v.num, hi)

(* line 141: input_param < param_values[0] or input_param > param_values[1] *)
OutOfRange(v, lo, hi) == Lt(v.num, lo) \/ Gt(v.num, hi)

VMP_Init ==
    /\ pc = "vmp_metric"
    /\ metric \in MetricNames
    /\ metric_params \in MetricParamDicts
    /\ i = 0
    /\ j = 0
    /\ raised = "none"
    /\ returned = <<>>
    /\ X = Unset
    /\ parameters = Unset
    /\ references = Unset

(* lines 126-130 *)
VMP_CheckMetric ==
    /\ pc = "vmp_metric"
    /\ raised = "none"
    /\ IF metric \notin DOMAIN available_metrics
       THEN /\ raised' = "ValueError"
            /\ pc' = pc
            /\ i' = i
       ELSE /\ raised' = raised
            /\ pc' = "vmp_declared"
            /\ i' = 1
    /\ UNCHANGED <<returned, j, X, parameters, references, metric, metric_params>>

(* lines 132-145: one iteration of the loop over available_metrics[metric] *)
VMP_DeclaredParam ==
    /\ pc = "vmp_declared"
    /\ raised = "none"
    /\ i <= Len(available_metrics[metric])
    /\ LET decl == available_metrics[metric][i]
       IN  IF decl.param \in keys(metric_params)
           THEN LET input_param == value_of(metric_params, decl.param)
                IN  IF ~isinstance(input_param, decl.param_type)
                    THEN /\ raised' = "TypeError"
                         /\ pc' = pc
                         /\ i' = i
                    ELSE IF OutOfRange(input_param, decl.lo, decl.hi)
                         THEN /\ raised' = "ValueError"
                              /\ pc' = pc
                              /\ i' = i
                         ELSE /\ raised' = raised
                              /\ pc' = pc
                              /\ i' = i + 1
           ELSE /\ raised' = raised
                /\ pc' = pc
                /\ i' = i + 1
    /\ UNCHANGED <<returned, j, X, parameters, references, metric, metric_params>>

(* line 132 exhausted, line 147 entered *)
VMP_DeclaredEnd ==
    /\ pc = "vmp_declared"
    /\ raised = "none"
    /\ i > Len(available_metrics[metric])
    /\ pc' = "vmp_keys"
    /\ i' = 1
    /\ UNCHANGED <<raised, returned, j, X, parameters, references, metric, metric_params>>

(* Mutation of lines 147-152: the key is looked up in the schema of the  *)
(* given metric only.                                                     *)
VMP_KeyCheck_PerMetric ==
    /\ pc = "vmp_keys"
    /\ raised = "none"
    /\ i <= Len(metric_params)
    /\ IF metric_params[i].key \notin
            { available_metrics[metric][k].param : k \in DOMAIN available_metrics[metric] }
       THEN /\ raised' = "ValueError"
            /\ pc' = pc
            /\ i' = i
       ELSE /\ raised' = raised
            /\ pc' = pc
            /\ i' = i + 1
    /\ UNCHANGED <<returned, j, X, parameters, references, metric, metric_params>>

(* lines 147-152: one iteration of the loop over metric_params.keys() *)
VMP_KeyCheck ==
    /\ pc = "vmp_keys"
    /\ raised = "none"
    /\ i <= Len(metric_params)
    /\ IF metric_params[i].key \notin available_metric_params
       THEN /\ raised' = "ValueError"
            /\ pc' = pc
            /\ i' = i
       ELSE /\ raised' = raised
            /\ pc' = pc
            /\ i' = i + 1
    /\ UNCHANGED <<returned, j, X, parameters, references, metric, metric_params>>

(* the function falls off its end: returns None *)
VMP_Return ==
    /\ pc = "vmp_keys"
    /\ raised = "none"
    /\ i > Len(metric_params)
    /\ pc' = "vmp_end"
    /\ UNCHANGED <<raised, returned, i, j, X, parameters, references, metric, metric_params>>

VMP_Next ==
    \/ VMP_CheckMetric
    \/ VMP_DeclaredParam
    \/ VMP_DeclaredEnd
    \/ VMP_KeyCheck
    \/ VMP_Return

SpecMetric == VMP_Init /\ [][VMP_Next]_vars

---------------------------------------------------------------------------
(* Properties of validate_metric_params. *)

Registered == metric \in {"bottleneck", "wasserstein", "betti", "landscape", "heat"}

(* the call is over: it returned, or it raised *)
Finished == raised # "none" \/ pc \in {"vmp_end", "vp_end", "cd_return", "cg_return"}

(* The declarations of the metric whose parameter is supplied with a value *)
(* of the wrong type, or with one below min or above max.                  *)
WrongType(d) ==
    /\ d.param \in keys(metric_params)
    /\ ~isinstance(value_of(metric_params, d.param), d.param_type)

OutsideClosedRange(d) ==
    /\ d.param \in keys(metric_params)
    /\ isinstance(value_of(metric_params, d.param), d.param_type)
    /\ \/ Lt(value_of(metric_params, d.param).num, d.lo)
       \/ Lt(d.hi, value_of(metric_params, d.param).num)

Failing ==
    { k \in DOMAIN available_metrics[metric] :
        WrongType(available_metrics[metric][k]) \/ OutsideClosedRange(available_metrics[metric][k]) }

FirstFailing == CHOOSE k \in Failing : \A other \in Failing : k <= other

KnownNames == {"delta", "p", "n_values", "n_layers", "order", "sigma"}

(* C1: with a registered metric, the first declaration (in registry order)  *)
(* whose parameter is supplied with a bad value decides the error:          *)
(* TypeError for a value that is no instance of the declared type, else     *)
(* ValueError for a value < min or > max (min and max themselves accepted); *)
(* declarations not supplied are skipped; with no such declaration and only *)
(* known keys the call ends without error.                                  *)
C1_DeclaredParams ==
    (Finished /\ Registered) =>
        IF Failing # {}
        THEN raised = (IF WrongType(available_metrics[metric][FirstFailing])
                       THEN "TypeError" ELSE "ValueError")
        ELSE (keys(metric_params) \subseteq KnownNames) => raised = "none"

(* wasserstein with p = 1 (its min) and delta = 1.0 (its max) is accepted *)
C1_Witness ==
    /\ Finished
    /\ metric = "wasserstein"
    /\ metric_params = << Item("p", PyInt(1)), Item("delta", PyFloat(Whole(1))) >>
    /\ raised = "none"

(* C2: with a registered metric and no failing declared parameter, the call *)
(* fails (with ValueError) exactly when some supplied key is in no metric's *)
(* schema; a key of another metric's schema raises nothing, whatever its    *)
(* value.                                                                   *)
C2_GlobalNamespace ==
    (Finished /\ Registered /\ Failing = {}) =>
        /\ raised \in {"none", "ValueError"}
        /\ raised = "ValueError" <=> ~(keys(metric_params) \subseteq KnownNames)

(* bottleneck given p (a wasserstein/betti/landscape parameter) as a str *)
C2_Witness ==
    /\ Finished
    /\ metric = "bottleneck"
    /\ metric_params = << Item("p", PyStr("a")) >>
    /\ raised = "none"

HeatSigmaOnly ==
    /\ Finished
    /\ metric = "heat"
    /\ Len(metric_params) = 1
    /\ metric_params[1].key = "sigma"
    /\ metric_params[1].value.ty \in {"int", "float"}

(* C3 as stated: sigma of heat ranges over the open interval (0, inf), so  *)
(* every v <= 0 is rejected with ValueError and every v > 0 accepted.       *)
C3_SigmaOpenInterval ==
    HeatSigmaOnly =>
        IF Gt(metric_params[1].value.num, Whole(0))
        THEN raised = "none"
        ELSE raised = "ValueError"

(* C3 amended: sigma of heat ranges over [0, inf): v < 0 is rejected with  *)
(* ValueError, every v >= 0 (0 included) is accepted.                       *)
C3_SigmaClosedAtZero ==
    HeatSigmaOnly =>
        IF Lt(metric_params[1].value.num, Whole(0))
        THEN raised = "ValueError"
        ELSE raised = "none"

(* heat given sigma = 0.0 is accepted *)
C3_Witness ==
    /\ HeatSigmaOnly
    /\ metric_params[1].value = PyFloat(Whole(0))
    /\ raised = "none"

---------------------------------------------------------------------------
(* Bounds and inputs of validate_params. *)

MaxRefs == 2

KeyNames == << "k1", "k2", "k3", "k4" >>

(* references[key], by what the code reads of it: [0] the expected type,  *)
(* len(...), whether [1] is a tuple or a list, and what [1] holds:        *)
(* (min, max) or the allowed values for a scalar type; (element type,     *)
(* (min, max)) or [element type] for the type list.                       *)
RefType(t) ==
    [type |-> t, len |-> 1, second |-> "none", elem |-> "none",
     lo |-> Whole(0), hi |-> Whole(0), allowed |-> <<>>]

RefRange(t, lo, hi) ==
    [type |-> t, len |-> 2, second |-> "tuple", elem |-> "none",
     lo |-> lo, hi |-> hi, allowed |-> <<>>]

RefEnum(t, allowed) ==
    [type |-> t, len |-> 2, second |-> "list", elem |-> "none",
     lo |-> Whole(0), hi |-> Whole(0), allowed |-> allowed]

RefListRange(t, lo, hi) ==
    [type |-> "list", len |-> 2, second |-> "tuple", elem |-> t,
     lo |-> lo, hi |-> hi, allowed |-> <<>>]

RefListOf(t) ==
    [type |-> "list", len |-> 2, second |-> "list", elem |-> t,
     lo |-> Whole(0), hi |-> Whole(0), allowed |-> <<>>]

(* [int], [Number, (1, 1.5)], [str, ['y', 'x']], [list, (int, (1, 2))], [list, [int]] *)
RefDecls ==
    { RefType("int"),
      RefRange("Number", Whole(1), Fin(3, 0)),
      RefEnum("str", << PyStr("y"), PyStr("x") >>),
      RefListRange("int", Whole(1), Whole(2)),
      RefListOf("int") }

(* references: its keys are KeyNames[1], KeyNames[2], ... in iteration order *)
ReferenceDicts ==
    UNION { { [k \in 1..n |-> Item(KeyNames[k], ds[k])] : ds \in [1..n -> RefDecls] } :
            n \in 0..MaxRefs }

(* 0, 1, 2, 1.5, 'x', 'z', [], [1], [1, 2], [1, 3], [1, 0], [0, 'x'], ['x', 0] *)
VPValues ==
    { PyInt(0), PyInt(1), PyInt(2), PyFloat(Fin(3, 0)), PyStr("x"), PyStr("z"),
      PyList(<<>>), PyList(<< PyInt(1) >>), PyList(<< PyInt(1), PyInt(2) >>),
      PyList(<< PyInt(1), PyInt(3) >>), PyList(<< PyInt(1), PyInt(0) >>),
      PyList(<< PyInt(0), PyStr("x") >>), PyList(<< PyStr("x"), PyInt(0) >>) }

(* parameters: a dict read by key only, so a function of its keys; "extra" *)
(* is a key that references never has.                                     *)
ParameterDicts ==
    { f \in UNION { [S -> VPValues] :
                      S \in SUBSET ({ KeyNames[k] : k \in 1..MaxRefs } \cup {"extra"}) } :
        "extra" \in DOMAIN f => f["extra"] = PyStr("z") }

---------------------------------------------------------------------------
(* validate_params(parameters, references) *)

(* == of Python on the scalars of the model: 1 == 1.0, 'x' == 'x' *)
PyEq(a, b) ==
    IF a.ty \in {"int", "float"} /\ b.ty \in {"int", "float"}
    THEN a.num = b.num
    ELSE a.ty = b.ty /\ a.str = b.str

(* Mutation of the membership test: only the first allowed value is compared. *)
PyIn_FirstOnly(v, l) == l # <<>> /\ PyEq(v, l[1])

(* parameters[key] in references[key][1] *)
PyIn(v, l) == \E k \in DOMAIN l : PyEq(v, l[k])

VP_Init ==
    /\ pc = "vp_key"
    /\ parameters \in ParameterDicts
    /\ references \in ReferenceDicts
    /\ i = 1
    /\ j = 0
    /\ raised = "none"
    /\ returned = <<>>
    /\ X = Unset
    /\ metric = Unset
    /\ metric_params = Unset

(* lines 85-93: the next key of references, its type check and the dispatch *)
VP_KeyTypeCheck ==
    /\ pc = "vp_key"
    /\ raised = "none"
    /\ i <= Len(references)
    /\ LET key == references[i].key
           ref == references[i].value
       IN  IF key \notin DOMAIN parameters
           THEN /\ raised' = "KeyError"
                /\ pc' = pc
                /\ UNCHANGED <<i, j>>
           ELSE IF ~isinstance(parameters[key], ref.type)
           THEN /\ raised' = "TypeError"
                /\ pc' = pc
                /\ UNCHANGED <<i, j>>
           ELSE IF ref.len = 1
           THEN /\ i' = i + 1
                /\ UNCHANGED <<raised, pc, j>>
           ELSE IF ref.type = "list"
           THEN /\ pc' = "vp_list"
                /\ j' = 1
                /\ UNCHANGED <<raised, i>>
           ELSE /\ pc' = "vp_scalar"
                /\ UNCHANGED <<raised, i, j>>
    /\ UNCHANGED <<returned, X, parameters, references, metric, metric_params>>

(* lines 94-107: one element of parameters[key] *)
VP_ListElement ==
    /\ pc = "vp_list"
    /\ raised = "none"
    /\ j <= Len(parameters[references[i].key].items)
    /\ LET ref == references[i].value
           parameter == parameters[references[i].key].items[j]
       IN  IF ~isinstance(parameter, ref.elem)
           THEN /\ raised' = "TypeError"
                /\ pc' = pc
                /\ j' = j
           ELSE IF ref.second = "tuple" /\ OutOfRange(parameter, ref.lo, ref.hi)
           THEN /\ raised' = "ValueError"
                /\ pc' = pc
                /\ j' = j
           ELSE /\ raised' = raised
                /\ pc' = pc
                /\ j' = j + 1
    /\ UNCHANGED <<returned, i, X, parameters, references, metric, metric_params>>

(* Mutation of line 108: continue instead of break. *)
VP_ListContinue ==
    /\ pc = "vp_list"
    /\ raised = "none"
    /\ j > Len(parameters[references[i].key].items)
    /\ pc' = "vp_key"
    /\ i' = i + 1
    /\ UNCHANGED <<raised, returned, j, X, parameters, references, metric, metric_params>>

(* line 108: break leaves the loop over references; the function ends *)
VP_ListBreak ==
    /\ pc = "vp_list"
    /\ raised = "none"
    /\ j > Len(parameters[references[i].key].items)
    /\ pc' = "vp_end"
    /\ UNCHANGED <<raised, returned, i, j, X, parameters, references, metric, metric_params>>

(* lines 109-122: the range or the allowed values of a scalar *)
VP_ScalarConstraint ==
    /\ pc = "vp_scalar"
    /\ raised = "none"
    /\ LET ref == references[i].value
           v == parameters[references[i].key]
       IN  IF ref.second = "tuple" /\ OutOfRange(v, ref.lo, ref.hi)
           THEN /\ raised' = "ValueError"
                /\ pc' = pc
                /\ i' = i
           ELSE IF ref.second = "list" /\ ~PyIn(v, ref.allowed)
           THEN /\ raised' = "ValueError"
                /\ pc' = pc
                /\ i' = i
           ELSE /\ raised' = raised
                /\ pc' = "vp_key"
                /\ i' = i + 1
    /\ UNCHANGED <<returned, j, X, parameters, references, metric, metric_params>>

(* line 85 exhausted: returns None *)
VP_Return ==
    /\ pc = "vp_key"
    /\ raised = "none"
    /\ i > Len(references)
    /\ pc' = "vp_end"
    /\ UNCHANGED <<raised, returned, i, j, X, parameters, references, metric, metric_params>>

VP_Next ==
    \/ VP_KeyTypeCheck
    \/ VP_ListElement
    \/ VP_ListBreak
    \/ VP_ScalarConstraint
    \/ VP_Return

SpecParams == VP_Init /\ [][VP_Next]_vars

---------------------------------------------------------------------------
(* Properties of validate_params. *)

Ref(k) == references[k].value

Present(k) == references[k].key \in DOMAIN parameters

Val(k) == parameters[references[k].key]

(* a sequence-typed key with a constraint *)
IsSeqKey(k) == Ref(k).type = "list" /\ Ref(k).len = 2

(* the elements of a sequence value that violate the declaration *)
BadElements(k) ==
    { e \in DOMAIN Val(k).items :
        \/ ~isinstance(Val(k).items[e], Ref(k).elem)
        \/ /\ Ref(k).second = "tuple"
           /\ \/ Lt(Val(k).items[e].num, Ref(k).lo)
              \/ Lt(Ref(k).hi, Val(k).items[e].num) }

FirstBadElement(k) == CHOOSE e \in BadElements(k) : \A other \in BadElements(k) : e <= other

(* what the checks of key k, taken alone, end with *)
ErrorOf(k) ==
    IF ~Present(k) THEN "KeyError"
    ELSE IF ~isinstance(Val(k), Ref(k).type) THEN "TypeError"
    ELSE IF Ref(k).len = 1 THEN "none"
    ELSE IF Ref(k).type = "list"
    THEN IF BadElements(k) = {} THEN "none"
         ELSE IF ~isinstance(Val(k).items[FirstBadElement(k)], Ref(k).elem)
              THEN "TypeError" ELSE "ValueError"
    ELSE IF Ref(k).second = "tuple"
    THEN IF Lt(Val(k).num, Ref(k).lo) \/ Lt(Ref(k).hi, Val(k).num)
         THEN "ValueError" ELSE "none"
    ELSE IF \E a \in DOMAIN Ref(k).allowed : PyEq(Val(k), Ref(k).allowed[a])
         THEN "none" ELSE "ValueError"

(* every key before k passed its checks and none of them was a constrained *)
(* sequence key                                                             *)
Reached(k) == \A m \in 1..(k - 1) : ErrorOf(m) = "none" /\ ~IsSeqKey(m)

(* C8: a key of references with a scalar expected type, when the loop gets  *)
(* to it: TypeError for a value that is no instance of the type; else, with *)
(* a (min, max) constraint, ValueError iff the value is < min or > max;     *)
(* with a list of allowed values, ValueError iff the value is not in it; a  *)
(* length-1 declaration stops at the type check and the next key is taken.  *)
(* Keys of parameters that references does not have raise nothing.          *)
C8_ScalarKeys ==
    Finished =>
        /\ \A k \in DOMAIN references :
              (Reached(k) /\ Ref(k).type # "list" /\ Present(k) /\ ErrorOf(k) # "none")
                  => raised = ErrorOf(k)
        /\ (\A k \in DOMAIN references : ErrorOf(k) = "none") => raised = "none"

(* k1 declared [int] passes, k2 = 'z' is not among the allowed values, and *)
(* parameters holds a key references does not have                         *)
C8_Witness ==
    /\ Finished
    /\ Len(references) = 2
    /\ Ref(1) = RefType("int")
    /\ Ref(2).second = "list" /\ Ref(2).type = "str"
    /\ DOMAIN parameters = {"k1", "k2", "extra"}
    /\ parameters["k1"] = PyInt(1)
    /\ parameters["k2"] = PyStr("z")
    /\ raised = "ValueError"

(* C9: once a constrained sequence key was processed without error, the     *)
(* loop over references is over: no later key is checked, so the call ends  *)
(* without error whatever the later keys hold; an earlier key that fails    *)
(* its checks still raises.                                                 *)
C9_BreakAfterSequenceKey ==
    Finished =>
        \A k \in DOMAIN references :
            (IsSeqKey(k) /\ \A m \in 1..(k - 1) : ~IsSeqKey(m)) =>
                /\ (Reached(k) /\ ErrorOf(k) = "none") => (raised = "none" /\ i = k)
                /\ (\E m \in 1..(k - 1) : ErrorOf(m) # "none") => raised # "none"

(* k1 is a sequence within its range, k2 violates its declaration: no error *)
C9_Witness ==
    /\ Finished
    /\ Len(references) = 2
    /\ IsSeqKey(1)
    /\ Present(1) /\ Present(2)
    /\ Val(1) = PyList(<< PyInt(1), PyInt(2) >>)
    /\ Ref(1).second = "tuple"
    /\ ErrorOf(2) \in {"TypeError", "ValueError"}
    /\ raised = "none"

---------------------------------------------------------------------------
(* Arrays.  A numpy array is its shape and its entries, data[a][b][c] for  *)
(* a 3-dimensional one.                                                    *)

Array(shape, data) == [shape |-> shape, data |-> data]

(* X[0]: the first sample, an array of one dimension less *)
FirstOf(A) == Array(Tail(A.shape), A.data[1])

(* X[np.newaxis]: the array with a leading axis of size 1 added *)
Wrapped(A) == Array(<<1>> \o A.shape, <<A.data>>)

---------------------------------------------------------------------------
(* Bounds and inputs of check_diagram. *)

MaxPoints == 3

(* (birth, death) pairs: on, above and below the diagonal *)
BirthDeath == { <<Whole(0), Whole(0)>>, <<Whole(0), Whole(1)>>, <<Whole(1), Whole(0)>> }

(* homology dimensions: -inf, -1, 0, 0.5, 1, inf *)
DimValues == { NegInf, Whole(-1), Whole(0), Fin(1, 0), Whole(1), PosInf }

Triples == { bd \o <<d>> : bd \in BirthDeath, d \in DimValues }

(* the shapes (n, p) of the batches: n samples of p points, n * p <= MaxPoints *)
DiagramShapes == { q \in (0..MaxPoints) \X (0..MaxPoints) : q[1] * q[2] <= MaxPoints }

(* a batch, or an array of 2 or of 4 dimensions made of it *)
Reshaped(A, form) ==
    CASE form = "batch" -> A
      [] form = "first" -> FirstOf(A)
      [] form = "wrapped" -> Wrapped(A)

---------------------------------------------------------------------------
(* check_diagram(X) *)

RECURSIVE sorted(_)
(* sorted(list(set(...))) on floats *)
sorted(S) ==
    IF S = {} THEN <<>>
    ELSE LET least == CHOOSE x \in S : \A y \in S : ~Lt(y, x)
         IN  <<least>> \o sorted(S \ {least})

(* Mutation of line 35: the values of every sample, X[:, :, 2]. *)
homology_dimensions_AllSamples(A) ==
    sorted({ A.data[sp[1]][sp[2]][3] : sp \in (1..A.shape[1]) \X (1..A.shape[2]) })

(* line 35: sorted(list(set(X[0, :, 2]))) *)
homology_dimensions(A) == sorted({ A.data[1][p][3] : p \in 1..A.shape[2] })

(* int(dim) for a finite dim (the arrays hold halves: eps = 0): truncation *)
(* towards zero                                                            *)
int(d) == IF d.half >= 0 THEN Whole(d.half \div 2) ELSE Whole(-((-d.half) \div 2))

(* np.abs(dim) *)
abs(d) ==
    IF d.inf # 0 THEN PosInf
    ELSE IF Lt(d, Whole(0)) THEN Fin(-d.half, -d.eps) ELSE d

(* line 53: np.sum(X[:, :, 1] >= X[:, :, 0]) *)
n_points_above_diag(A) ==
    Cardinality({ sp \in (1..A.shape[1]) \X (1..A.shape[2]) :
                    Ge(A.data[sp[1]][sp[2]][2], A.data[sp[1]][sp[2]][1]) })

(* line 54 *)
n_points_global(A) == A.shape[1] * A.shape[2]

CD_Init ==
    /\ pc = "cd_ndim"
    /\ \E np \in DiagramShapes, Rows \in {Triples, BirthDeath}, form \in {"batch", "first", "wrapped"} :
         \E d \in [1..np[1] -> [1..np[2] -> Rows]] :
            /\ form = "first" => np[1] >= 1
            /\ X = Reshaped(Array(<<np[1], np[2], Len(CHOOSE r \in Rows : TRUE)>>, d), form)
    /\ i = 0
    /\ j = 0
    /\ raised = "none"
    /\ returned = <<>>
    /\ parameters = Unset
    /\ references = Unset
    /\ metric = Unset
    /\ metric_params = Unset

(* Mutation of lines 28-30: another exception class is raised. *)
CD_CheckNdim_TypeError ==
    /\ pc = "cd_ndim"
    /\ raised = "none"
    /\ IF Len(X.shape) # 3
       THEN /\ raised' = "TypeError"
            /\ pc' = pc
       ELSE /\ raised' = raised
            /\ pc' = "cd_last_axis"
    /\ UNCHANGED <<returned, i, j, X, parameters, references, metric, metric_params>>

(* lines 28-30 *)
CD_CheckNdim ==
    /\ pc = "cd_ndim"
    /\ raised = "none"
    /\ IF Len(X.shape) # 3
       THEN /\ raised' = "ValueError"
            /\ pc' = pc
       ELSE /\ raised' = raised
            /\ pc' = "cd_last_axis"
    /\ UNCHANGED <<returned, i, j, X, parameters, references, metric, metric_params>>

(* lines 31-33 *)
CD_CheckLastAxis ==
    /\ pc = "cd_last_axis"
    /\ raised = "none"
    /\ IF X.shape[3] # 3
       THEN /\ raised' = "ValueError"
            /\ pc' = pc
       ELSE /\ raised' = raised
            /\ pc' = "cd_first_sample"
    /\ UNCHANGED <<returned, i, j, X, parameters, references, metric, metric_params>>

(* line 35: X[0, :, 2] of a batch with no sample is an IndexError *)
CD_HomologyDimensions ==
    /\ pc = "cd_first_sample"
    /\ raised = "none"
    /\ IF X.shape[1] = 0
       THEN /\ raised' = "IndexError"
            /\ pc' = pc
            /\ i' = i
       ELSE /\ raised' = raised
            /\ pc' = "cd_dims"
            /\ i' = 1
    /\ UNCHANGED <<returned, j, X, parameters, references, metric, metric_params>>

(* lines 36-51: one iteration of the loop over homology_dimensions; int() *)
(* of -inf is an OverflowError                                            *)
CD_DimCheck ==
    /\ pc = "cd_dims"
    /\ raised = "none"
    /\ i <= Len(homology_dimensions(X))
    /\ LET dim == homology_dimensions(X)[i]
       IN  IF dim = PosInf
           THEN IF Len(homology_dimensions(X)) # 1
                THEN /\ raised' = "ValueError"
                     /\ i' = i
                ELSE /\ raised' = raised
                     /\ i' = i + 1
           ELSE IF dim.inf # 0
           THEN /\ raised' = "OverflowError"
                /\ i' = i
           ELSE IF dim # int(dim)
           THEN /\ raised' = "ValueError"
                /\ i' = i
           ELSE IF dim # abs(dim)
           THEN /\ raised' = "ValueError"
                /\ i' = i
           ELSE /\ raised' = raised
                /\ i' = i + 1
    /\ UNCHANGED <<pc, returned, j, X, parameters, references, metric, metric_params>>

(* line 36 exhausted *)
CD_DimsEnd ==
    /\ pc = "cd_dims"
    /\ raised = "none"
    /\ i > Len(homology_dimensions(X))
    /\ pc' = "cd_diagonal"
    /\ UNCHANGED <<raised, returned, i, j, X, parameters, references, metric, metric_params>>

(* lines 53-60 *)
CD_AboveDiagonal ==
    /\ pc = "cd_diagonal"
    /\ raised = "none"
    /\ IF n_points_above_diag(X) # n_points_global(X)
       THEN /\ raised' = "ValueError"
            /\ pc' = pc
            /\ returned' = returned
       ELSE /\ raised' = raised
            /\ pc' = "cd_return"
            /\ returned' = <<X>>
    /\ UNCHANGED <<i, j, X, parameters, references, metric, metric_params>>

CD_Next ==
    \/ CD_CheckNdim
    \/ CD_CheckLastAxis
    \/ CD_HomologyDimensions
    \/ CD_DimCheck
    \/ CD_DimsEnd
    \/ CD_AboveDiagonal

SpecDiagram == CD_Init /\ [][CD_Next]_vars

---------------------------------------------------------------------------
(* Properties of check_diagram. *)

(* X has the shape (n_samples, n_points, 3) *)
IsDiagramBatch == Len(X.shape) = 3 /\ X.shape[3] = 3

DimsOfSample(s) == { X.data[s][p][3] : p \in 1..X.shape[2] }

DimsOfBatch == UNION { DimsOfSample(s) : s \in 1..X.shape[1] }

(* some point of some sample has death < birth *)
BelowDiagonal ==
    \E s \in 1..X.shape[1], p \in 1..X.shape[2] : Lt(X.data[s][p][2], X.data[s][p][1])

(* only inf, or only non-negative integers *)
ValidDims(D) ==
    \/ D = {PosInf}
    \/ \A d \in D : d.inf = 0 /\ d.eps = 0 /\ d.half % 2 = 0 /\ d.half >= 0

(* C4 as stated, on the batches that hold no -inf: a batch whose dimension  *)
(* values, over all its samples, are inf and at least one other value is    *)
(* rejected with ValueError.                                                *)
C4_WholeBatch ==
    (Finished /\ IsDiagramBatch /\ NegInf \notin DimsOfBatch
       /\ PosInf \in DimsOfBatch /\ Cardinality(DimsOfBatch) > 1)
        => raised = "ValueError"

(* C4 amended: a batch whose FIRST sample has inf and at least one other    *)
(* dimension value is rejected while the dimensions are checked, with       *)
(* ValueError, or with OverflowError when -inf is among them; the           *)
(* dimension values of the other samples are not looked at: a batch whose   *)
(* first sample's dimensions are valid and whose points are all on or above *)
(* the diagonal is returned.                                                *)
C4_FirstSampleOnly ==
    (Finished /\ IsDiagramBatch /\ X.shape[1] >= 1) =>
        /\ (PosInf \in DimsOfSample(1) /\ Cardinality(DimsOfSample(1)) > 1) =>
              /\ returned = <<>>
              /\ pc = "cd_dims"
              /\ raised \in {"ValueError", "OverflowError"}
              /\ raised = "OverflowError" => NegInf \in DimsOfSample(1)
        /\ (ValidDims(DimsOfSample(1)) /\ ~BelowDiagonal) => returned = <<X>>

(* the first sample has the dimensions 0 and inf: ValueError *)
C4_Witness ==
    /\ IsDiagramBatch
    /\ X.shape[1] >= 1
    /\ DimsOfSample(1) = {Whole(0), PosInf}
    /\ pc = "cd_dims"
    /\ raised = "ValueError"

(* C5: a batch with a point below the diagonal (death < birth) is rejected  *)
(* with ValueError and never returned; the death/birth check raises only    *)
(* when there is such a point.                                              *)
C5_BelowDiagonalRejected ==
    /\ (Finished /\ IsDiagramBatch /\ BelowDiagonal) =>
          (raised = "ValueError" /\ returned = <<>>)
    /\ (pc = "cd_diagonal" /\ raised # "none") => BelowDiagonal

---------------------------------------------------------------------------
(* Bounds and inputs of check_graph. *)

MaxEntries == 4

(* 1 / rtol of np.allclose, whose defaults are rtol = 1e-05, atol = 1e-08 *)
RtolInverse == 100000

(* the entries of the matrices are integers *)
GraphEntries == { -1, 0, 1, RtolInverse, RtolInverse + 1 }

(* the shapes (n, r, c) of the batches: n matrices of r rows and c columns *)
GraphShapes ==
    { q \in (0..MaxEntries) \X (0..MaxEntries) \X (0..MaxEntries) :
        q[1] * q[2] * q[3] <= MaxEntries }

---------------------------------------------------------------------------
(* check_graph(X) *)

RECURSIVE sum(_)
(* np.sum of a sequence of integers *)
sum(l) == IF l = <<>> THEN 0 ELSE Head(l) + sum(Tail(l))

(* np.diagonal(X, axis1=1, axis2=2): one row of diagonal entries per sample *)
diagonal(A) == [s \in 1..A.shape[1] |-> [k \in 1..A.shape[2] |-> A.data[s][k][k]]]

(* Mutation of line 74: every diagonal entry is tested, np.sum(np.abs(...)). *)
sum_diagonal_Absolute(A) ==
    sum([s \in 1..A.shape[1] |->
            sum([k \in 1..A.shape[2] |-> IF A.data[s][k][k] < 0 THEN -A.data[s][k][k]
                                                                 ELSE A.data[s][k][k]])])

(* np.sum(np.diagonal(X, axis1=1, axis2=2)) *)
sum_diagonal(A) == sum([s \in 1..A.shape[1] |-> sum(diagonal(A)[s])])

absolute(n) == IF n < 0 THEN -n ELSE n

(* np.isclose(a, b): |a - b| <= atol + rtol * |b|.  On integers this is    *)
(* 100000 * |a - b| <= |b| + 0.001, that is |a - b| <= |b| div 100000.     *)
isclose(a, b) == absolute(a - b) <= absolute(b) \div RtolInverse

(* line 76: np.allclose(X, np.transpose(X, (0, 2, 1))) *)
allclose_transpose(A) ==
    \A s \in 1..A.shape[1], r \in 1..A.shape[2], c \in 1..A.shape[3] :
        isclose(A.data[s][r][c], A.data[s][c][r])

(* Mutation of line 78: the diagonal is left out of the count. *)
n_negative_OffDiagonal(A) ==
    Cardinality({ q \in (1..A.shape[1]) \X (1..A.shape[2]) \X (1..A.shape[3]) :
                    q[2] # q[3] /\ A.data[q[1]][q[2]][q[3]] < 0 })

(* line 78: np.sum(X < 0) *)
n_negative(A) ==
    Cardinality({ q \in (1..A.shape[1]) \X (1..A.shape[2]) \X (1..A.shape[3]) :
                    A.data[q[1]][q[2]][q[3]] < 0 })

CG_Init ==
    /\ pc = "cg_ndim"
    /\ \E q \in GraphShapes, form \in {"batch", "first", "wrapped"} :
         \E d \in [1..q[1] -> [1..q[2] -> [1..q[3] -> GraphEntries]]] :
            /\ form = "first" => q[1] >= 1
            /\ X = Reshaped(Array(q, d), form)
    /\ i = 0
    /\ j = 0
    /\ raised = "none"
    /\ returned = <<>>
    /\ parameters = Unset
    /\ references = Unset
    /\ metric = Unset
    /\ metric_params = Unset

(* lines 68-71 *)
CG_CheckNdim ==
    /\ pc = "cg_ndim"
    /\ raised = "none"
    /\ IF Len(X.shape) # 3
       THEN /\ raised' = "ValueError"
            /\ pc' = pc
       ELSE /\ raised' = raised
            /\ pc' = "cg_square"
    /\ UNCHANGED <<returned, i, j, X, parameters, references, metric, metric_params>>

(* lines 72-73 *)
CG_CheckSquare ==
    /\ pc = "cg_square"
    /\ raised = "none"
    /\ IF X.shape[2] # X.shape[3]
       THEN /\ raised' = "TypeError"
            /\ pc' = pc
       ELSE /\ raised' = raised
            /\ pc' = "cg_diagonal"
    /\ UNCHANGED <<returned, i, j, X, parameters, references, metric, metric_params>>

(* lines 74-75 *)
CG_CheckDiagonal ==
    /\ pc = "cg_diagonal"
    /\ raised = "none"
    /\ IF sum_diagonal(X) # 0
       THEN /\ raised' = "ValueError"
            /\ pc' = pc
       ELSE /\ raised' = raised
            /\ pc' = "cg_symmetric"
    /\ UNCHANGED <<returned, i, j, X, parameters, references, metric, metric_params>>

(* lines 76-77 *)
CG_CheckSymmetric ==
    /\ pc = "cg_symmetric"
    /\ raised = "none"
    /\ IF ~allclose_transpose(X)
       THEN /\ raised' = "ValueError"
            /\ pc' = pc
       ELSE /\ raised' = raised
            /\ pc' = "cg_negative"
    /\ UNCHANGED <<returned, i, j, X, parameters, references, metric, metric_params>>

(* lines 78-80 *)
CG_CheckNonNegative ==
    /\ pc = "cg_negative"
    /\ raised = "none"
    /\ IF n_negative(X) > 0
       THEN /\ raised' = "ValueError"
            /\ pc' = pc
            /\ returned' = returned
       ELSE /\ raised' = raised
            /\ pc' = "cg_return"
            /\ returned' = <<X>>
    /\ UNCHANGED <<i, j, X, parameters, references, metric, metric_params>>

CG_Next ==
    \/ CG_CheckNdim
    \/ CG_CheckSquare
    \/ CG_CheckDiagonal
    \/ CG_CheckSymmetric
    \/ CG_CheckNonNegative

SpecGraph == CG_Init /\ [][CG_Next]_vars

(* check_diagram or check_graph, called on an array *)
SpecArrays == (CD_Init \/ CG_Init) /\ [][CD_Next \/ CG_Next]_vars

---------------------------------------------------------------------------
(* Properties of the shape checks of check_diagram and check_graph. *)

InDiagram ==
    pc \in {"cd_ndim", "cd_last_axis", "cd_first_sample", "cd_dims", "cd_diagonal", "cd_return"}

(* the call stopped at one of the shape checks (lines 28-33, 68-71) *)
RaisedAtShapeCheck == raised # "none" /\ pc \in {"cd_ndim", "cd_last_axis", "cg_ndim"}

---------------------------------------------------------------------------
(* Properties of check_graph. *)

(* the diagonal entries, each with its place *)
DiagonalPlaces == (1..X.shape[1]) \X (1..X.shape[2])

RECURSIVE TotalOver(_)
TotalOver(S) ==
    IF S = {} THEN 0
    ELSE LET q == CHOOSE q \in S : TRUE
         IN  X.data[q[1]][q[2]][q[2]] + TotalOver(S \ {q})

DiagonalTotal == TotalOver(DiagonalPlaces)

ZeroDiagonal == \A q \in DiagonalPlaces : X.data[q[1]][q[2]][q[2]] = 0

PastDiagonalCheck == pc \in {"cg_symmetric", "cg_negative", "cg_return"}

(* C7: the diagonal check raises its ValueError if and only if the sum of  *)
(* all diagonal entries of all samples is not zero: entries +1 and -1 pass *)
(* it.                                                                     *)
C7_DiagonalSum ==
    /\ (pc = "cg_diagonal" /\ raised # "none") => (raised = "ValueError" /\ DiagonalTotal # 0)
    /\ PastDiagonalCheck => DiagonalTotal = 0

(* a matrix with the diagonal (1, -1), or two 1x1 matrices 1 and -1, is    *)
(* past the diagonal check                                                 *)
C7_Witness ==
    /\ PastDiagonalCheck
    /\ { X.data[q[1]][q[2]][q[2]] : q \in DiagonalPlaces } = {1, -1}

IsGraphBatch == Len(X.shape) = 3

Square == X.shape[2] = X.shape[3]

Places == (1..X.shape[1]) \X (1..X.shape[2]) \X (1..X.shape[3])

NonNegative == \A q \in Places : X.data[q[1]][q[2]][q[3]] >= 0

Symmetric == \A q \in Places : X.data[q[1]][q[2]][q[3]] = X.data[q[1]][q[3]][q[2]]

SymmetricWithinTolerance ==
    \A q \in Places : isclose(X.data[q[1]][q[2]][q[3]], X.data[q[1]][q[3]][q[2]])

(* C10 as stated: check_graph returns a batch of integers only if all its  *)
(* diagonal entries are zero, and returns it exactly when it is square,    *)
(* symmetric, non-negative and zero on the diagonal.                       *)
C10_ExactlySymmetric ==
    (Finished /\ IsGraphBatch) =>
        /\ returned = <<X>> => (Square /\ ZeroDiagonal)
        /\ returned = <<X>> <=> (Square /\ Symmetric /\ NonNegative /\ ZeroDiagonal)

(* C10 amended: check_graph returns a batch of integers only if all its    *)
(* diagonal entries are zero, and returns it exactly when it is square,    *)
(* symmetric up to the tolerance of np.allclose (|a - b| <= 1e-08 +        *)
(* 1e-05 * |b|), non-negative and zero on the diagonal.                    *)
C10_ReturnedGraphs ==
    (Finished /\ IsGraphBatch) =>
        /\ returned = <<X>> => (Square /\ ZeroDiagonal)
        /\ returned = <<X>> <=>
              (Square /\ SymmetricWithinTolerance /\ NonNegative /\ ZeroDiagonal)
        /\ returned = <<>> => raised \in {"TypeError", "ValueError"}

(* a returned 2x2 matrix whose off-diagonal entries are 100000 and 100001 *)
C10_Witness ==
    /\ IsGraphBatch
    /\ returned = <<X>>
    /\ X.shape = <<1, 2, 2>>
    /\ ~Symmetric
    /\ ZeroDiagonal

===========================================================================
